---- MODULE Spec2Model ----
(***************************************************************************)
(* The Translator of "Building a super small and simple i18n script in     *)
(* JavaScript" (src/unnamed/part_002) as a state machine.                  *)
(*                                                                         *)
(* JavaScript strings are sequences of one-character strings, so that      *)
(* substr, split and string indexing are computed and not assumed.         *)
(***************************************************************************)
EXTENDS Integers, Sequences, FiniteSets, TLC

(***************************************************************************)
(* Bounds of the model.                                                    *)
(***************************************************************************)
\* number of tagged elements in the page when the Translator is constructed
MaxElems == 2
\* number of load() calls in one behaviour
MaxLoads == 2
\* length of navigator.languages in the language-detection specification
MaxLangs == 2

(***************************************************************************)
(* Strings used as inputs: locale tags, language codes, key segments,      *)
(* translated texts.                                                       *)
(***************************************************************************)
en == <<"e", "n">>
de == <<"d", "e">>
es == <<"e", "s">>
fr == <<"f", "r">>
it == <<"i", "t">>
enUS == <<"e", "n", "-", "U", "S">>
deDE == <<"d", "e", "-", "D", "E">>
frFR == <<"f", "r", "-", "F", "R">>
oneChar == <<"e">>

greeting == <<"g", "r", "e", "e", "t", "i", "n", "g">>
header == <<"h", "e", "a", "d", "e", "r">>
title == <<"t", "i", "t", "l", "e">>
button == <<"b", "u", "t", "t", "o", "n">>
nav == <<"n", "a", "v">>
home == <<"h", "o", "m", "e">>
footer == <<"f", "o", "o", "t", "e", "r">>
length == <<"l", "e", "n", "g", "t", "h">>
constructor == <<"c", "o", "n", "s", "t", "r", "u", "c", "t", "o", "r">>
name == <<"n", "a", "m", "e">>
zero == <<"0">>

Dot(a, b) == a \o <<".">> \o b

Hello == <<"H", "e", "l", "l", "o">>
Header == <<"H", "e", "a", "d", "e", "r">>
Click == <<"C", "l", "i", "c", "k">>
Home == <<"H", "o", "m", "e">>
Bye == <<"B", "y", "e">>
Hallo == <<"H", "a", "l", "l", "o">>
Kopf == <<"K", "o", "p", "f">>
Klick == <<"K", "l", "i", "c", "k">>
Start == <<"S", "t", "a", "r", "t">>
Hola == <<"H", "o", "l", "a">>
Cabeza == <<"C", "a", "b", "e", "z", "a">>
Ciao == <<"C", "i", "a", "o">>
Uno == <<"U", "n", "o">>
Due == <<"D", "u", "e">>
Original == <<"o", "r", "i", "g">>

(***************************************************************************)
(* JavaScript values met while a key path is walked.  Every value is a     *)
(* record of the same shape: t is the type, s the characters of a string   *)
(* (or the name of a built-in function), p the path of an object or array  *)
(* inside the translation document, n a number or the length of an array.  *)
(***************************************************************************)
Undefined == [t |-> "undefined", s |-> <<>>, p |-> <<>>, n |-> 0]
Null == [t |-> "null", s |-> <<>>, p |-> <<>>, n |-> 0]
Str(x) == [t |-> "string", s |-> x, p |-> <<>>, n |-> 0]
Obj(path) == [t |-> "object", s |-> <<>>, p |-> path, n |-> 0]
Num(k) == [t |-> "number", s |-> <<>>, p |-> <<>>, n |-> k]
Arr(path, k) == [t |-> "array", s |-> <<>>, p |-> path, n |-> k]
Fn(nm) == [t |-> "function", s |-> nm, p |-> <<>>, n |-> 0]
TypeError == [t |-> "TypeError", s |-> <<>>, p |-> <<>>, n |-> 0]

ObjectName == <<"O", "b", "j", "e", "c", "t">>
StringName == <<"S", "t", "r", "i", "n", "g">>
NumberName == <<"N", "u", "m", "b", "e", "r">>
FunctionName == <<"F", "u", "n", "c", "t", "i", "o", "n">>
ArrayName == <<"A", "r", "r", "a", "y">>

(***************************************************************************)
(* The translation files served under /i18n/.  A document is a function    *)
(* from the paths of its own properties to values; <<>> is the root.       *)
(* en.json and de.json have the same structure, es.json is only partly     *)
(* translated (no header.button, no nav) and has an empty footer.          *)
(***************************************************************************)
DocEn ==
    (<<>> :> Obj(<<>>)) @@
    (<<greeting>> :> Str(Hello)) @@
    (<<header>> :> Obj(<<header>>)) @@
    (<<header, title>> :> Str(Header)) @@
    (<<header, button>> :> Str(Click)) @@
    (<<nav>> :> Obj(<<nav>>)) @@
    (<<nav, home>> :> Str(Home)) @@
    (<<footer>> :> Str(Bye))

DocDe ==
    (<<>> :> Obj(<<>>)) @@
    (<<greeting>> :> Str(Hallo)) @@
    (<<header>> :> Obj(<<header>>)) @@
    (<<header, title>> :> Str(Kopf)) @@
    (<<header, button>> :> Str(Klick)) @@
    (<<nav>> :> Obj(<<nav>>)) @@
    (<<nav, home>> :> Str(Start)) @@
    (<<footer>> :> Str(Bye))

DocEs ==
    (<<>> :> Obj(<<>>)) @@
    (<<greeting>> :> Str(Hola)) @@
    (<<header>> :> Obj(<<header>>)) @@
    (<<header, title>> :> Str(Cabeza)) @@
    (<<footer>> :> Str(<<>>))

\* it.json is not a tree of strings and mappings: its header is a list of
\* two strings and its footer an empty list
DocIt ==
    (<<>> :> Obj(<<>>)) @@
    (<<greeting>> :> Str(Ciao)) @@
    (<<header>> :> Arr(<<header>>, 2)) @@
    (<<header, <<"0">>>> :> Str(Uno)) @@
    (<<header, <<"1">>>> :> Str(Due)) @@
    (<<footer>> :> Arr(<<footer>>, 0))

\* the documents translate is called with directly
Docs == {DocEn, DocDe, DocEs}

\* the characters of `/i18n/${lang}.json`
Url(lang) ==
    <<"/", "i", "1", "8", "n", "/">> \o lang \o <<".", "j", "s", "o", "n">>

\* the files the server holds; every other URL is a missing resource
Files ==
    (Url(en) :> DocEn) @@ (Url(de) :> DocDe) @@ (Url(es) :> DocEs) @@
    (Url(it) :> DocIt)

(***************************************************************************)
(* JavaScript string and property semantics used by the Translator.        *)
(***************************************************************************)
Min(a, b) == IF a < b THEN a ELSE b

\* String.prototype.substr(start, len) for start >= 0
substr(s, start, len) == SubSeq(s, start + 1, Min(Len(s), start + len))

\* String.prototype.split("."): the pieces between the dots, empty ones kept
RECURSIVE SplitFrom(_, _, _, _)
SplitFrom(s, i, piece, out) ==
    IF i > Len(s) THEN Append(out, piece)
    ELSE IF s[i] = "." THEN SplitFrom(s, i + 1, <<>>, Append(out, piece))
    ELSE SplitFrom(s, i + 1, Append(piece, s[i]), out)

split(s) == SplitFrom(s, 1, <<>>, <<>>)

Digits == <<"0", "1", "2", "3", "4", "5", "6", "7", "8", "9">>
IsDigit(c) == \E d \in 1..Len(Digits) : Digits[d] = c
DigitOf(c) == (CHOOSE d \in 1..Len(Digits) : Digits[d] = c) - 1

\* a canonical array index: decimal digits without a leading zero
IsArrayIndex(seg) ==
    /\ seg # <<>>
    /\ \A i \in 1..Len(seg) : IsDigit(seg[i])
    /\ (Len(seg) > 1 => seg[1] # "0")

RECURSIVE ParseIndex(_)
ParseIndex(seg) ==
    IF seg = <<>> THEN 0
    ELSE 10 * ParseIndex(SubSeq(seg, 1, Len(seg) - 1)) + DigitOf(seg[Len(seg)])

RECURSIVE NumberToString(_)
NumberToString(k) ==
    IF k < 10 THEN <<Digits[k + 1]>>
    ELSE NumberToString(k \div 10) \o <<Digits[(k % 10) + 1]>>

\* obj[i]: own properties first, then what the prototype chain supplies.
\* Of the inherited properties the model keeps constructor (on every value),
\* length and the indices of a string, length and name of a function.
\* Indexing undefined throws a TypeError, which ends the walk.
GetProp(doc, obj, i) ==
    CASE obj.t = "object" ->
            IF Append(obj.p, i) \in DOMAIN doc THEN doc[Append(obj.p, i)]
            ELSE IF i = constructor THEN Fn(ObjectName)
            ELSE Undefined
      [] obj.t = "string" ->
            IF i = length THEN Num(Len(obj.s))
            ELSE IF IsArrayIndex(i) /\ ParseIndex(i) < Len(obj.s)
                 THEN Str(<<obj.s[ParseIndex(i) + 1]>>)
            ELSE IF i = constructor THEN Fn(StringName)
            ELSE Undefined
      [] obj.t = "number" ->
            IF i = constructor THEN Fn(NumberName) ELSE Undefined
      [] obj.t = "array" ->
            IF Append(obj.p, i) \in DOMAIN doc THEN doc[Append(obj.p, i)]
            ELSE IF i = length THEN Num(obj.n)
            ELSE IF i = constructor THEN Fn(ArrayName)
            ELSE Undefined
      [] obj.t = "function" ->
            IF i = length THEN Num(1)
            ELSE IF i = name THEN Str(obj.s)
            ELSE IF i = constructor THEN Fn(FunctionName)
            ELSE Undefined
      [] obj.t = "undefined" -> TypeError
      [] OTHER -> TypeError

\* keys.reduce((obj, i) => obj[i], translation)
RECURSIVE reduce(_, _, _, _)
reduce(doc, keys, k, obj) ==
    IF k > Len(keys) \/ obj.t = "TypeError" THEN obj
    ELSE reduce(doc, keys, k + 1, GetProp(doc, obj, keys[k]))

\* the key resolution of translate: lines 1-2 of its loop body
Resolve(doc, key) == reduce(doc, split(key), 1, doc[<<>>])

\* if (text)
Truthy(v) ==
    CASE v.t = "string" -> v.s # <<>>
      [] v.t = "number" -> v.n # 0
      [] v.t = "object" -> TRUE
      [] v.t = "array" -> TRUE
      [] v.t = "function" -> TRUE
      [] OTHER -> FALSE

\* the string an assignment to innerHTML converts a value that is no array
\* to
StringOf(v) ==
    CASE v.t = "string" -> v.s
      [] v.t = "number" -> NumberToString(v.n)
      [] v.t = "object" ->
            <<"[", "o", "b", "j", "e", "c", "t", " ",
              "O", "b", "j", "e", "c", "t", "]">>
      [] v.t = "function" ->
            <<"f", "u", "n", "c", "t", "i", "o", "n", " ">> \o v.s \o
            <<"(", ")", " ", "{", " ", "[", "n", "a", "t", "i", "v", "e", " ",
              "c", "o", "d", "e", "]", " ", "}">>
      [] OTHER -> <<"u", "n", "d", "e", "f", "i", "n", "e", "d">>

\* the string an assignment to innerHTML converts its value to: an array is
\* its elements' strings joined by commas, null and undefined elements
\* giving the empty string
RECURSIVE toString(_, _)
RECURSIVE join(_, _, _)
join(doc, arr, k) ==
    IF k >= arr.n THEN <<>>
    ELSE LET e == GetProp(doc, arr, NumberToString(k))
         IN  (IF k > 0 THEN <<",">> ELSE <<>>)
             \o (IF e.t \in {"null", "undefined"} THEN <<>> ELSE toString(doc, e))
             \o join(doc, arr, k + 1)

toString(doc, v) == IF v.t = "array" THEN join(doc, v, 0) ELSE StringOf(v)

\* A variant of the callback that removes the key of an element it has
\* translated.
TranslateElementUntags(page, e, doc) ==
    LET text == Resolve(doc, page[e].key)
    IN  IF text.t = "TypeError" THEN [page |-> page, threw |-> TRUE, doc |-> doc]
        ELSE IF Truthy(text)
             THEN [page |-> [page EXCEPT ![e].html = toString(doc, text), ![e].key = <<>>],
                   threw |-> FALSE, doc |-> doc]
        ELSE [page |-> page, threw |-> FALSE, doc |-> doc]

\* A variant of the callback that takes the text out of the document: it
\* leaves an empty string where the text it has written was.
TranslateElementConsumes(page, e, doc) ==
    LET text == Resolve(doc, page[e].key)
    IN  IF text.t = "TypeError" THEN [page |-> page, threw |-> TRUE, doc |-> doc]
        ELSE IF Truthy(text)
             THEN [page |-> [page EXCEPT ![e].html = toString(doc, text)],
                   threw |-> FALSE,
                   doc |-> IF split(page[e].key) \in DOMAIN doc
                           THEN [doc EXCEPT ![split(page[e].key)] = Str(<<>>)]
                           ELSE doc]
        ELSE [page |-> page, threw |-> FALSE, doc |-> doc]

\* A variant of the callback that translates an element only once: it
\* leaves alone every element that no longer shows its original text.
TranslateElementOnce(page, e, doc) ==
    LET text == Resolve(doc, page[e].key)
    IN  IF text.t = "TypeError" THEN [page |-> page, threw |-> TRUE, doc |-> doc]
        ELSE IF Truthy(text) /\ page[e].html = Original
             THEN [page |-> [page EXCEPT ![e].html = toString(doc, text)],
                   threw |-> FALSE, doc |-> doc]
        ELSE [page |-> page, threw |-> FALSE, doc |-> doc]

\* The body of the forEach callback for one element: the page after it,
\* whether it threw, and the translation object after it.  The callback
\* reads the object (obj[i]) and assigns only to element.innerHTML.
TranslateElement(page, e, doc) ==
    LET text == Resolve(doc, page[e].key)
    IN  IF text.t = "TypeError" THEN [page |-> page, threw |-> TRUE, doc |-> doc]
        ELSE IF Truthy(text)
             THEN [page |-> [page EXCEPT ![e].html = toString(doc, text)],
                   threw |-> FALSE, doc |-> doc]
        ELSE [page |-> page, threw |-> FALSE, doc |-> doc]

\* this._elements.forEach(...) from position k on; an exception thrown by
\* the callback ends the loop.
RECURSIVE forEach(_, _, _, _)
forEach(page, elems, k, doc) ==
    IF k > Len(elems) THEN [page |-> page, threw |-> FALSE, doc |-> doc]
    ELSE LET r == TranslateElement(page, elems[k], doc)
         IN  IF r.threw THEN r ELSE forEach(r.page, elems, k + 1, r.doc)

\* A variant of translate that stops after the first captured element.
translateFirst(page, elems, doc) ==
    forEach(page, SubSeq(elems, 1, Min(1, Len(elems))), 1, doc)

\* translate(translation) on the captured elements
translate(page, elems, doc) == forEach(page, elems, 1, doc)

\* A variant of getLanguage that reads the last entry of the list.
getLanguageLast(navi) ==
    LET lang == IF navi.hasLanguages
                THEN (IF Len(navi.languages) >= 1
                      THEN Str(navi.languages[Len(navi.languages)])
                      ELSE Undefined)
                ELSE Str(navi.language)
    IN  IF lang.t = "string" THEN Str(substr(lang.s, 0, 2)) ELSE TypeError

\* getLanguage(): the result, or TypeError when lang is undefined
getLanguage(navi) ==
    LET lang == IF navi.hasLanguages
                THEN (IF Len(navi.languages) >= 1 THEN Str(navi.languages[1])
                      ELSE Undefined)
                ELSE Str(navi.language)
    IN  IF lang.t = "string" THEN Str(substr(lang.s, 0, 2)) ELSE TypeError

(***************************************************************************)
(* State.                                                                  *)
(***************************************************************************)
VARIABLES
    navigator,   \* the environment: navigator.languages and navigator.language
    page,        \* the [data-i18n] elements of the document, in document order
    htmlLang,    \* document.documentElement.lang
    phase,       \* "start" before new Translator(), then "ready" or "crashed"
    lang,        \* this._lang
    elements,    \* this._elements: positions in page of the captured elements
    requests,    \* one record per load() call: its fetch chain
    settled,     \* the requests whose chain has ended, in the order they ended
    log,         \* what console.error has printed
    uncaught,    \* an exception has reached the caller of a method or handler
    loads,       \* how many times load() has been called
    markerWrites, \* how many times document.documentElement.lang was assigned
    toggled,     \* toggleLangTag since the last load call: "no" (not called), or
                 \* what its last call did: "wrote" or "kept" the marker
    translation, \* the document object last handed to translate, after the call
    component,   \* which email-chip component is on the page: "App" or "BadgeInput"
    value,       \* the text of the input: state.value / this._input.value
    emails,      \* the email list: state.emails / this._items
    error,       \* the error message shown, or null
    connected,   \* the component is in the document: App from the start,
                 \* BadgeInput between connectedCallback and disconnectedCallback
    listeners,   \* the event listeners of BadgeInput's input and list, in the
                 \* order they were added
    clicked,     \* the address the last call of handleDelete was to remove
                 \* (toBeRemoved / evt.target.dataset.value), null before
    browser,     \* BrowserDetector.browser: what _detectBrowser finds here
    outdatedBrowser, \* App.state.outdatedBrowser of the banner example
    mounted      \* the banner example's App has been mounted

vars ==
    <<navigator, page, htmlLang, phase, lang, elements, requests, settled, log,
      uncaught, loads, markerWrites, toggled, translation,
      component, value, emails, error, connected, listeners, clicked,
      browser, outdatedBrowser, mounted>>

\* the state of the email-chip components
chipVars ==
    <<component, value, emails, error, connected, listeners, clicked>>

\* the state of the banner example
bannerVars == <<browser, outdatedBrowser, mounted>>

\* the state of the Translator and of its page
translatorVars ==
    <<navigator, page, htmlLang, phase, lang, elements, requests, settled, log,
      loads, markerWrites, toggled, translation>>

\* no document has been handed to translate
NoDocument == <<>>

\* the email-chip component as constructed: state = { value: "", emails: [],
\* error: null }
NoChips ==
    /\ component = "App"
    /\ value = <<>>
    /\ emails = <<>>
    /\ error = Null
    /\ connected = FALSE
    /\ listeners = <<>>
    /\ clicked = Null

\* the banner example before it is mounted: state = { outdatedBrowser: false }
NoBanner ==
    /\ browser = [name |-> "Chrome", version |-> <<"7", "1">>]
    /\ outdatedBrowser = FALSE
    /\ mounted = FALSE

\* the Translator's instrumentation before any call
NoCalls ==
    /\ loads = 0
    /\ markerWrites = 0
    /\ toggled = "no"
    /\ translation = NoDocument

\* the data-i18n values used in the pages
Keys ==
    { greeting,
      Dot(header, title),
      Dot(header, button),
      Dot(nav, home),
      Dot(header, constructor),
      Dot(greeting, length),
      Dot(greeting, zero),
      header,
      footer }

\* the keys of the pages the load specification starts from: one that every
\* file resolves, one whose last segment es.json lacks, one whose first
\* segment es.json lacks
LoadKeys == {greeting, Dot(header, button), Dot(nav, home)}

\* the pages of at most k tagged elements with keys among ks
RECURSIVE Pages(_, _)
Pages(ks, k) ==
    IF k = 0 THEN {<<>>}
    ELSE LET shorter == Pages(ks, k - 1)
         IN  shorter \cup
             { Append(pg, [key |-> key, html |-> Original]) :
                   pg \in {q \in shorter : Len(q) = k - 1}, key \in ks }

\* navigator as the browsers of the main specification supply it
Navigators ==
    { [hasLanguages |-> TRUE, languages |-> <<enUS, deDE>>, language |-> enUS],
      [hasLanguages |-> FALSE, languages |-> <<>>, language |-> deDE] }

\* the arguments load is called with: none, or a language code
NoArg == [given |-> FALSE, v |-> <<>>]
Arg(code) == [given |-> TRUE, v |-> code]
LoadArgs == {NoArg, Arg(de), Arg(es), Arg(fr)}

\* `Could not load ${this._lang}.json.`
CouldNotLoad(code) ==
    <<"C", "o", "u", "l", "d", " ", "n", "o", "t", " ",
      "l", "o", "a", "d", " ">> \o code \o <<".", "j", "s", "o", "n", ".">>

\* no key occurs twice in the page
DistinctKeys(pg) ==
    \A i, j \in 1..Len(pg) : pg[i].key = pg[j].key => i = j

Init ==
    /\ navigator \in Navigators
    /\ page \in {pg \in Pages(LoadKeys, MaxElems) : Len(pg) = MaxElems /\ DistinctKeys(pg)}
    /\ htmlLang = en
    /\ phase = "start"
    /\ lang = <<>>
    /\ elements = <<>>
    /\ requests = <<>>
    /\ settled = <<>>
    /\ log = <<>>
    /\ uncaught = FALSE
    /\ NoCalls
    /\ NoChips
    /\ NoBanner

(***************************************************************************)
(* new Translator()                                                        *)
(***************************************************************************)
\* document.querySelectorAll("[data-i18n]"): a static list of the elements
\* tagged at the time of the call
querySelectorAll(pg) == [k \in 1..Len(pg) |-> k]

Constructor ==
    /\ phase = "start"
    /\ LET detected == getLanguage(navigator)
       IN  IF detected.t = "TypeError"
           THEN /\ phase' = "crashed"
                /\ uncaught' = TRUE
                /\ UNCHANGED <<lang, elements>>
           ELSE /\ phase' = "ready"
                /\ lang' = detected.s
                /\ elements' = querySelectorAll(page)
                /\ UNCHANGED uncaught
    /\ UNCHANGED <<navigator, page, htmlLang, requests, settled, log>>
    /\ UNCHANGED <<loads, markerWrites, toggled, translation, chipVars, bannerVars>>

(***************************************************************************)
(* load(lang = null)                                                       *)
(***************************************************************************)
\* A variant of the assignment that detects the language again when no code
\* is passed.
LoadLangRedetects(current, arg) ==
    IF arg.given /\ arg.v # <<>> THEN arg.v ELSE getLanguage(navigator).s

\* A variant of the assignment that keeps the first two characters of the
\* code, as getLanguage does.
LoadLangTruncates(current, arg) ==
    IF arg.given /\ arg.v # <<>> THEN substr(arg.v, 0, 2) ELSE current

\* if (lang) { this._lang = lang; } : the empty string is falsy
LoadLang(current, arg) ==
    IF arg.given /\ arg.v # <<>> THEN arg.v ELSE current

\* A variant of load that keeps the documents it has retrieved: it issues
\* no fetch when the file of the language asked for has arrived before.
LoadCached(arg) ==
    /\ phase = "ready"
    /\ Len(requests) < MaxLoads
    /\ lang' = LoadLang(lang, arg)
    /\ IF \E r \in 1..Len(requests) :
              requests[r].url = Url(lang') /\ requests[r].got
       THEN requests' = requests
       ELSE requests' = Append(requests,
                [arg |-> arg, url |-> Url(lang'), st |-> "fetching", got |-> FALSE])
    /\ loads' = loads + 1
    /\ toggled' = "no"
    /\ UNCHANGED <<navigator, page, htmlLang, phase, elements, settled, log, uncaught>>
    /\ UNCHANGED <<markerWrites, translation, chipVars, bannerVars>>

\* load(arg): sets the language and starts the fetch.  The request records
\* the argument, the URL asked for, where the chain stands (st: "fetching",
\* "parsing", "rejected" with the catch handler's job queued, "caught" or
\* "fulfilled") and whether the document was retrieved (got).
Load(arg) ==
    /\ phase = "ready"
    /\ Len(requests) < MaxLoads
    /\ lang' = LoadLang(lang, arg)
    /\ requests' = Append(requests,
           [arg |-> arg, url |-> Url(lang'), st |-> "fetching", got |-> FALSE])
    /\ loads' = loads + 1
    /\ toggled' = "no"
    /\ UNCHANGED <<navigator, page, htmlLang, phase, elements, settled, log, uncaught>>
    /\ UNCHANGED <<markerWrites, translation, chipVars, bannerVars>>

\* fetch() fulfils: a response arrived (a 404 page is a response too);
\* res.json() starts reading it.
FetchResolve(r) ==
    /\ requests[r].st = "fetching"
    /\ requests' = [requests EXCEPT ![r].st = "parsing"]
    /\ UNCHANGED <<navigator, page, htmlLang, phase, lang, elements, settled, log,
                   uncaught>>
    /\ UNCHANGED <<loads, markerWrites, toggled, translation, chipVars, bannerVars>>

\* .catch(() => console.error(`Could not load ${this._lang}.json.`))
CatchHandler(lg, current) == Append(lg, CouldNotLoad(current))

\* A variant of the rejection that rolls the language back to the detected
\* one.
FetchRejectRollsBack(r) ==
    /\ requests[r].st = "fetching"
    /\ requests' = [requests EXCEPT ![r].st = "rejected"]
    /\ lang' = getLanguage(navigator).s
    /\ UNCHANGED <<navigator, page, htmlLang, phase, elements, settled, log,
                   uncaught>>
    /\ UNCHANGED <<loads, markerWrites, toggled, translation, chipVars, bannerVars>>

\* fetch() rejects (network failure): the rejection passes down the chain
\* and queues the job of the catch handler.
FetchReject(r) ==
    /\ requests[r].st = "fetching"
    /\ requests' = [requests EXCEPT ![r].st = "rejected"]
    /\ UNCHANGED <<navigator, page, htmlLang, phase, lang, elements, settled, log,
                   uncaught>>
    /\ UNCHANGED <<loads, markerWrites, toggled, translation, chipVars, bannerVars>>

\* A variant of the rejection that fetches the file again instead of giving
\* up.
JsonRejectRetries(r) ==
    /\ requests[r].st = "parsing"
    /\ requests' = [requests EXCEPT ![r].st = "fetching"]
    /\ UNCHANGED <<navigator, page, htmlLang, phase, lang, elements, settled, log,
                   uncaught>>
    /\ UNCHANGED <<loads, markerWrites, toggled, translation, chipVars, bannerVars>>

\* A variant of the rejection that empties the captured elements.
JsonRejectClears(r) ==
    /\ requests[r].st = "parsing"
    /\ requests' = [requests EXCEPT ![r].st = "rejected"]
    /\ UNCHANGED <<settled, log>>
    /\ page' = [k \in 1..Len(page) |->
                   IF \E j \in 1..Len(elements) : elements[j] = k
                   THEN [page[k] EXCEPT !.html = <<>>] ELSE page[k]]
    /\ UNCHANGED <<navigator, htmlLang, phase, lang, elements, uncaught>>
    /\ UNCHANGED <<loads, markerWrites, toggled, translation, chipVars, bannerVars>>

\* res.json() rejects: the body is no JSON (the page of a missing resource,
\* malformed data) or the connection broke; the rejection queues the job of
\* the catch handler.
JsonReject(r) ==
    /\ requests[r].st = "parsing"
    /\ requests' = [requests EXCEPT ![r].st = "rejected"]
    /\ UNCHANGED <<navigator, page, htmlLang, phase, lang, elements, settled, log,
                   uncaught>>
    /\ UNCHANGED <<loads, markerWrites, toggled, translation, chipVars, bannerVars>>

\* A variant of the fulfilment whose callback translates the elements tagged
\* at the time it runs instead of the captured ones.
JsonResolveRescans(r) ==
    /\ requests[r].st = "parsing"
    /\ requests[r].url \in DOMAIN Files
    /\ LET done == translate(page, querySelectorAll(page), Files[requests[r].url])
       IN  /\ page' = done.page
           /\ IF done.threw
              THEN /\ requests' = [requests EXCEPT ![r].st = "rejected", ![r].got = TRUE]
                   /\ settled' = settled
              ELSE /\ requests' = [requests EXCEPT ![r].st = "fulfilled", ![r].got = TRUE]
                   /\ settled' = Append(settled, r)
    /\ log' = log
    /\ UNCHANGED <<navigator, htmlLang, phase, lang, elements, uncaught>>
    /\ UNCHANGED <<loads, markerWrites, toggled, translation, chipVars, bannerVars>>

\* A variant of the fulfilment whose callback also stores the language its
\* load was called with.
JsonResolveSetsLang(r) ==
    /\ requests[r].st = "parsing"
    /\ requests[r].url \in DOMAIN Files
    /\ LET done == translate(page, elements, Files[requests[r].url])
       IN  /\ page' = done.page
           /\ IF done.threw
              THEN /\ requests' = [requests EXCEPT ![r].st = "rejected", ![r].got = TRUE]
                   /\ settled' = settled
              ELSE /\ requests' = [requests EXCEPT ![r].st = "fulfilled", ![r].got = TRUE]
                   /\ settled' = Append(settled, r)
    /\ log' = log
    /\ lang' = LoadLang(lang, requests[r].arg)
    /\ UNCHANGED <<navigator, htmlLang, phase, elements, uncaught>>
    /\ UNCHANGED <<loads, markerWrites, toggled, translation, chipVars, bannerVars>>

\* res.json() fulfils with the document of an existing file and
\* .then((translation) => { this.translate(translation); }) runs.  When
\* translate throws, the promise of this then is rejected, which queues the
\* job of the catch handler: the handler runs in a later step, and other
\* callbacks and calls can run in between.
JsonResolve(r) ==
    /\ requests[r].st = "parsing"
    /\ requests[r].url \in DOMAIN Files
    /\ LET done == translate(page, elements, Files[requests[r].url])
       IN  /\ page' = done.page
           /\ IF done.threw
              THEN /\ requests' = [requests EXCEPT ![r].st = "rejected", ![r].got = TRUE]
                   /\ settled' = settled
              ELSE /\ requests' = [requests EXCEPT ![r].st = "fulfilled", ![r].got = TRUE]
                   /\ settled' = Append(settled, r)
    /\ log' = log
    /\ UNCHANGED <<navigator, htmlLang, phase, lang, elements, uncaught>>
    /\ UNCHANGED <<loads, markerWrites, toggled, translation, chipVars, bannerVars>>

\* The job of the catch handler of a rejected chain runs: it reads
\* this._lang as it is now.
Catch(r) ==
    /\ requests[r].st = "rejected"
    /\ requests' = [requests EXCEPT ![r].st = "caught"]
    /\ settled' = Append(settled, r)
    /\ log' = CatchHandler(log, lang)
    /\ UNCHANGED <<navigator, page, htmlLang, phase, lang, elements, uncaught>>
    /\ UNCHANGED <<loads, markerWrites, toggled, translation, chipVars, bannerVars>>

(***************************************************************************)
(* toggleLangTag(): a method of the class that load never calls.           *)
(***************************************************************************)
\* A variant of toggleLangTag that assigns the marker on every call.
ToggleLangTagAlways ==
    /\ phase = "ready"
    /\ htmlLang' = lang
    /\ markerWrites' = markerWrites + 1
    /\ toggled' = "wrote"
    /\ UNCHANGED <<navigator, page, phase, lang, elements, requests, settled, log,
                   uncaught>>
    /\ UNCHANGED <<loads, translation, chipVars, bannerVars>>

ToggleLangTag ==
    /\ phase = "ready"
    /\ IF htmlLang # lang
       THEN /\ htmlLang' = lang
            /\ markerWrites' = markerWrites + 1
            /\ toggled' = "wrote"
       ELSE /\ htmlLang' = htmlLang
            /\ markerWrites' = markerWrites
            /\ toggled' = "kept"
    /\ UNCHANGED <<navigator, page, phase, lang, elements, requests, settled, log,
                   uncaught>>
    /\ UNCHANGED <<loads, translation, chipVars, bannerVars>>

Next ==
    \/ Constructor
    \/ \E arg \in LoadArgs : Load(arg)
    \/ \E r \in 1..Len(requests) : FetchResolve(r)
    \/ \E r \in 1..Len(requests) : FetchReject(r)
    \/ \E r \in 1..Len(requests) : JsonResolve(r)
    \/ \E r \in 1..Len(requests) : JsonReject(r)
    \/ \E r \in 1..Len(requests) : Catch(r)
    \/ ToggleLangTag

Spec == Init /\ [][Next]_vars

(***************************************************************************)
(* translate(translation) called directly on documents of every shape.     *)
(***************************************************************************)
\* translate is a method of the class; what it throws goes to its caller.
Translate(doc) ==
    /\ phase = "ready"
    /\ page' = translate(page, elements, doc).page
    /\ uncaught' = (uncaught \/ translate(page, elements, doc).threw)
    /\ translation' = translate(page, elements, doc).doc
    /\ UNCHANGED <<navigator, htmlLang, phase, lang, elements, requests, settled, log>>
    /\ UNCHANGED <<loads, markerWrites, toggled, chipVars, bannerVars>>

InitTranslate ==
    /\ navigator = [hasLanguages |-> TRUE, languages |-> <<enUS, deDE>>,
                    language |-> enUS]
    /\ page \in {pg \in Pages(Keys, MaxElems) : Len(pg) >= 1}
    /\ htmlLang = en
    /\ phase = "start"
    /\ lang = <<>>
    /\ elements = <<>>
    /\ requests = <<>>
    /\ settled = <<>>
    /\ log = <<>>
    /\ uncaught = FALSE
    /\ NoCalls
    /\ NoChips
    /\ NoBanner

NextTranslate ==
    \/ Constructor
    \/ \E doc \in Docs : Translate(doc)

SpecTranslate == InitTranslate /\ [][NextTranslate]_vars

(***************************************************************************)
(* Language detection over the environments a browser can present.         *)
(***************************************************************************)
Tags == {enUS, en, deDE, oneChar}

RECURSIVE TagLists(_)
TagLists(k) ==
    IF k = 0 THEN {<<>>}
    ELSE LET shorter == TagLists(k - 1)
         IN  shorter \cup
             { Append(l, tag) : l \in {q \in shorter : Len(q) = k - 1}, tag \in Tags }

InitDetect ==
    /\ navigator \in
           { [hasLanguages |-> TRUE, languages |-> l, language |-> tag] :
                 l \in TagLists(MaxLangs), tag \in Tags }
           \cup
           { [hasLanguages |-> FALSE, languages |-> <<>>, language |-> tag] :
                 tag \in Tags \cup {frFR} }
    /\ page = <<[key |-> greeting, html |-> Original]>>
    /\ htmlLang = en
    /\ phase = "start"
    /\ lang = <<>>
    /\ elements = <<>>
    /\ requests = <<>>
    /\ settled = <<>>
    /\ log = <<>>
    /\ uncaught = FALSE
    /\ NoCalls
    /\ NoChips
    /\ NoBanner

NextDetect == Constructor

SpecDetect == InitDetect /\ [][NextDetect]_vars

(***************************************************************************)
(* Vocabulary of the properties.                                           *)
(***************************************************************************)
\* every load has run its chain to the end
AllSettled == phase = "ready" /\ Len(settled) = Len(requests)

\* the request whose chain ended last
LastSettled == settled[Len(settled)]

\* the document a request retrieves
DocOf(r) == Files[requests[r].url]

\* the key path names a non-empty string leaf of the document
HasText(doc, key) ==
    /\ split(key) \in DOMAIN doc
    /\ doc[split(key)].t = "string"
    /\ doc[split(key)].s # <<>>

TextAt(doc, key) == doc[split(key)].s

\* the key path leaves the document: below some mapping of the document the
\* next segment is absent
MissingBranch(doc, key) ==
    LET path == split(key)
    IN  \E k \in 1..Len(path) :
            /\ SubSeq(path, 1, k - 1) \in DOMAIN doc
            /\ doc[SubSeq(path, 1, k - 1)].t = "object"
            /\ SubSeq(path, 1, k) \notin DOMAIN doc

\* every captured element shows the document's text for its key
Shows(doc) ==
    \A k \in 1..Len(elements) :
        /\ HasText(doc, page[elements[k]].key)
        /\ page[elements[k]].html = TextAt(doc, page[elements[k]].key)

ResolvesAll(doc) ==
    \A k \in 1..Len(elements) : HasText(doc, page[elements[k]].key)

\* the code passed by the most recent load call that passed one
RECURSIVE LastCode(_)
LastCode(k) ==
    IF k = 0 THEN <<>>
    ELSE IF requests[k].arg.given THEN requests[k].arg.v
    ELSE LastCode(k - 1)

(***************************************************************************)
(* C1.  Overlapping loads are last-write-wins on content: when two loads   *)
(* both retrieve documents that resolve every captured key to a non-empty  *)
(* string, then once all chains have ended every element shows the text of *)
(* the document that arrived last, whichever load was called first.        *)
(***************************************************************************)
C1_LastWriteWinsContent ==
    \A a, b \in 1..Len(requests) :
        ( /\ a # b
          /\ AllSettled
          /\ LastSettled = a
          /\ requests[a].st = "fulfilled" /\ requests[b].st = "fulfilled"
          /\ ResolvesAll(DocOf(a)) /\ ResolvesAll(DocOf(b)) )
        => Shows(DocOf(a))

\* load(A), load(B) with another language, B's document arrives first, A's
\* last: the page shows A's texts.
C1_Witness ==
    /\ AllSettled
    /\ settled = <<2, 1>>
    /\ requests[1].st = "fulfilled" /\ requests[2].st = "fulfilled"
    /\ requests[1].url # requests[2].url
    /\ ResolvesAll(DocOf(1)) /\ ResolvesAll(DocOf(2))
    /\ Shows(DocOf(1))
    /\ ~Shows(DocOf(2))

(***************************************************************************)
(* C2 as claimed.  After overlapping loads have settled, the active        *)
(* language is the code of the load whose chain ended last.                *)
(***************************************************************************)
C2_LastSettledIsActive ==
    (AllSettled /\ Len(requests) >= 2)
        => requests[LastSettled].url = Url(lang)

(***************************************************************************)
(* C2 amended.  After overlapping loads have settled, the active language  *)
(* is the code passed to the load that was called last, whatever the order *)
(* in which the chains ended.                                              *)
(***************************************************************************)
C2_LastCalledIsActive ==
    (AllSettled /\ Len(requests) >= 2 /\ LastCode(Len(requests)) # <<>>)
        => lang = LastCode(Len(requests))

\* the first load's chain ended last, the active language is the second's
C2_Witness ==
    /\ AllSettled
    /\ settled = <<2, 1>>
    /\ requests[1].arg.given /\ requests[2].arg.given
    /\ requests[1].arg.v # requests[2].arg.v
    /\ requests[1].st = "fulfilled" /\ requests[2].st = "fulfilled"
    /\ lang = requests[2].arg.v

(***************************************************************************)
(* C3.  A load whose retrieval fails (the fetch rejects, or the body is no *)
(* JSON document) changes no element: neither the call, nor the rejection  *)
(* of its chain, nor its catch handler touches the page; the failure is    *)
(* one more line of the log, no exception reaches the caller and nothing   *)
(* else changes.                                                           *)
(***************************************************************************)
C3_FailedLoadKeepsContent ==
    [][ /\ (Len(requests') > Len(requests) => page' = page)
        /\ \A r \in 1..Len(requests) :
               /\ ( /\ requests[r].st \in {"fetching", "parsing"}
                    /\ requests'[r].st = "rejected"
                    /\ ~requests'[r].got )
                  => /\ page' = page
                     /\ log' = log
                     /\ <<htmlLang', lang', elements', phase', uncaught'>> =
                            <<htmlLang, lang, elements, phase, uncaught>>
               /\ ( /\ requests[r].st = "rejected"
                    /\ requests'[r].st = "caught"
                    /\ ~requests[r].got )
                  => /\ page' = page
                     /\ Len(log') = Len(log) + 1
                     /\ <<htmlLang', lang', elements', phase', uncaught'>> =
                            <<htmlLang, lang, elements, phase, uncaught>> ]_vars

\* a translated page on which a later load failed: the texts are still there
C3_Witness ==
    \E r \in 1..Len(requests) :
        /\ requests[r].st = "caught" /\ ~requests[r].got
        /\ LastSettled = r
        /\ log # <<>>
        /\ \E k \in 1..Len(elements) : page[elements[k]].html # Original

(***************************************************************************)
(* C4.  After load(code) whose retrieval failed, and with no load called   *)
(* since, the active language is the attempted code: it is not rolled back *)
(* to the language loaded before.                                          *)
(***************************************************************************)
C4_FailedLoadKeepsAttemptedCode ==
    \A r \in 1..Len(requests) :
        ( /\ r = Len(requests)
          /\ requests[r].st \in {"rejected", "caught"} /\ ~requests[r].got
          /\ requests[r].arg.given )
        => lang = requests[r].arg.v

\* load(A) succeeded and showed A's texts, then load(B) failed: the active
\* language is B
C4_Witness ==
    /\ Len(requests) = 2
    /\ settled = <<1, 2>>
    /\ requests[1].st = "fulfilled"
    /\ requests[2].st = "caught" /\ ~requests[2].got
    /\ requests[2].arg.given
    /\ requests[2].url # requests[1].url
    /\ lang = requests[2].arg.v
    /\ Url(lang) # requests[1].url

(***************************************************************************)
(* C5 as claimed.  A successful load updates the language marker of the    *)
(* host document: once the load called last has retrieved its document and *)
(* translated the page, the marker equals the active language.             *)
(***************************************************************************)
C5_MarkerFollowsSuccessfulLoad ==
    ( /\ requests # <<>>
      /\ requests[Len(requests)].st = "fulfilled" )
    => htmlLang = lang

(***************************************************************************)
(* C6 as claimed.  Element updates are independent: when translate meets   *)
(* an element whose key path leaves the document, every element whose key  *)
(* names a non-empty string is still updated to that string.               *)
(***************************************************************************)
C6_UpdatesAreIndependent ==
    [][ \A doc \in Docs :
            ( /\ Translate(doc)
              /\ \E k \in 1..Len(elements) :
                     MissingBranch(doc, page[elements[k]].key) )
            => \A k \in 1..Len(elements) :
                   HasText(doc, page[elements[k]].key)
                   => page'[elements[k]].html =
                          TextAt(doc, page[elements[k]].key) ]_vars

(***************************************************************************)
(* C7 as claimed.  A key resolution miss is silent: when a load has        *)
(* retrieved its document and the path of some captured element leaves the *)
(* document, nothing is written to the log.                                *)
(***************************************************************************)
C7_MissIsSilent ==
    [][ \A r \in 1..Len(requests) :
            ( /\ requests'[r] # requests[r]
              /\ requests'[r].got
              /\ \E k \in 1..Len(elements) :
                     MissingBranch(DocOf(r), page[elements[k]].key) )
            => log' = log ]_vars

(***************************************************************************)
(* C8 as claimed.  After a load has retrieved a document and translate has *)
(* run, every captured element whose key path names a non-empty string     *)
(* leaf shows exactly that string.                                         *)
(***************************************************************************)
C8_ResolvedKeyIsShown ==
    [][ \A r \in 1..Len(requests) :
            ( /\ requests[r].st = "parsing"
              /\ requests'[r].got )
            => \A k \in 1..Len(elements) :
                   HasText(DocOf(r), page[elements[k]].key)
                   => page'[elements[k]].html =
                          TextAt(DocOf(r), page[elements[k]].key) ]_vars

(***************************************************************************)
(* C9 as claimed.  An element whose key path references a missing branch   *)
(* of the document has the same content after translate as before.         *)
(***************************************************************************)
C9_MissingBranchKeepsContent ==
    [][ \A doc \in Docs :
            Translate(doc)
            => \A k \in 1..Len(elements) :
                   MissingBranch(doc, page[elements[k]].key)
                   => page'[elements[k]].html = page[elements[k]].html ]_vars

(***************************************************************************)
(* C10.  The detected language is the first two characters of the first    *)
(* entry of navigator.languages when the list is there (and has an entry), *)
(* and the first two characters of navigator.language otherwise; no later  *)
(* entry of the list has a part in it.                                     *)
(***************************************************************************)
C10_DetectsFirstTwoOfFirst ==
    phase = "ready" =>
        LET tag == IF navigator.hasLanguages THEN navigator.languages[1]
                   ELSE navigator.language
        IN  /\ Len(lang) = Min(2, Len(tag))
            /\ \A i \in 1..Len(lang) : lang[i] = tag[i]

\* a list of two entries that start differently, the first longer than two
\* characters
C10_Witness ==
    /\ phase = "ready"
    /\ navigator.hasLanguages
    /\ Len(navigator.languages) = 2
    /\ Len(navigator.languages[1]) > 2
    /\ navigator.languages[2][1] # navigator.languages[1][1]
    /\ navigator.language # navigator.languages[1]
    /\ lang = <<navigator.languages[1][1], navigator.languages[1][2]>>

(***************************************************************************)
(* load called with every kind of argument.                                *)
(***************************************************************************)
\* none, the empty string, two-letter codes with and without a file, and a
\* full locale tag
LoadArgsAll == {NoArg, Arg(<<>>), Arg(de), Arg(fr), Arg(enUS)}

InitLoad ==
    /\ navigator \in Navigators
    /\ page = <<[key |-> greeting, html |-> Original]>>
    /\ htmlLang = en
    /\ phase = "start"
    /\ lang = <<>>
    /\ elements = <<>>
    /\ requests = <<>>
    /\ settled = <<>>
    /\ log = <<>>
    /\ uncaught = FALSE
    /\ NoCalls
    /\ NoChips
    /\ NoBanner

NextLoad ==
    \/ Constructor
    \/ \E arg \in LoadArgsAll : Load(arg)
    \/ \E r \in 1..Len(requests) : FetchResolve(r)
    \/ \E r \in 1..Len(requests) : FetchReject(r)
    \/ \E r \in 1..Len(requests) : JsonResolve(r)
    \/ \E r \in 1..Len(requests) : JsonReject(r)
    \/ \E r \in 1..Len(requests) : Catch(r)

SpecLoad == InitLoad /\ [][NextLoad]_vars

\* the request the load call of this step has issued
NewRequest == requests'[Len(requests')]

\* this step is a call of load
IsLoadCall == loads' = loads + 1

\* C11 as stated: whenever load is called with a string, the active language
\* becomes exactly that string before the fetch is issued, and the resource
\* requested is the one that string addresses.
C11_CodeIsVerbatim ==
    [][ (IsLoadCall /\ Len(requests') = Len(requests) + 1 /\ NewRequest.arg.given)
        => /\ lang' = NewRequest.arg.v
           /\ NewRequest.url = Url(NewRequest.arg.v) ]_vars

\* C11: whenever load is called with a non-empty string, the active language
\* becomes exactly that string (no truncation to two characters, no
\* re-derivation from navigator) before the fetch is issued, and the
\* resource requested is the one that string addresses.
C11_NonEmptyCodeIsVerbatim ==
    [][ IsLoadCall
        => /\ Len(requests') = Len(requests) + 1
           /\ (NewRequest.arg.given /\ NewRequest.arg.v # <<>>)
              => /\ lang' = NewRequest.arg.v
                 /\ NewRequest.url = Url(NewRequest.arg.v)
                 /\ NewRequest.st = "fetching" ]_vars

\* load("en-US") was called in a browser whose detected language is another
\* one, and en-US is the active language
C11_Witness ==
    /\ Len(requests) >= 1
    /\ requests[Len(requests)].arg = Arg(enUS)
    /\ requests[Len(requests)].url = Url(enUS)
    /\ lang = enUS
    /\ getLanguage(navigator).s # substr(enUS, 0, 2)

\* the language determined by the first k load calls: the code of the most
\* recent one that set a code, or the detected language
RECURSIVE Determined(_)
Determined(k) ==
    IF k = 0 THEN getLanguage(navigator).s
    ELSE IF requests[k].arg.given /\ requests[k].arg.v # <<>> THEN requests[k].arg.v
    ELSE Determined(k - 1)

\* C12: a call of load without a code leaves the active language unchanged
\* and requests the document of the language determined before the call:
\* the detected one, or the one set by the most recent load with a code.
C12_NoCodeKeepsLanguage ==
    [][ (IsLoadCall /\ Len(requests') = Len(requests) + 1 /\ ~NewRequest.arg.given)
        => /\ lang' = lang
           /\ lang = Determined(Len(requests))
           /\ NewRequest.url = Url(lang)
           /\ NewRequest.st = "fetching" ]_vars

\* load("de") and then load() were called where another language is
\* detected: the second call asks for de.json and de stays active
C12_Witness ==
    /\ Len(requests) >= 2
    /\ requests[Len(requests) - 1].arg = Arg(de)
    /\ requests[Len(requests)].arg = NoArg
    /\ requests[Len(requests)].url = Url(de)
    /\ lang = de
    /\ getLanguage(navigator).s # de

\* this step is a call of toggleLangTag that can be told from doing nothing
IsToggleCall ==
    \/ markerWrites' # markerWrites
    \/ (toggled' # toggled /\ toggled' # "no")

\* C13: toggleLangTag is idempotent.  A call assigns the marker exactly when
\* it differs from the active language and leaves it equal to the active
\* language; between two load calls only the first call of toggleLangTag
\* can write, so two calls in a row perform at most one write; and nothing
\* else assigns the marker.
C13_ToggleIsIdempotent ==
    [][ /\ IsToggleCall
           => /\ lang' = lang
              /\ htmlLang' = lang
              /\ (markerWrites' = markerWrites + 1) <=> (htmlLang # lang)
              /\ (markerWrites' = markerWrites) <=> (htmlLang = lang)
              /\ (markerWrites' # markerWrites) => toggled = "no"
              /\ (toggled # "no") => toggled' = "kept"
        /\ (htmlLang' # htmlLang) => (markerWrites' # markerWrites) ]_vars

\* after load("de") toggleLangTag was called twice: the first call wrote the
\* marker, the second left it, and the marker is the active language
C13_Witness ==
    /\ loads = 1
    /\ markerWrites = 1
    /\ toggled = "kept"
    /\ lang # getLanguage(navigator).s
    /\ lang # en
    /\ htmlLang = lang

(***************************************************************************)
(* A page that gains tagged elements while the Translator is in use.       *)
(***************************************************************************)
\* the host appends an element with a data-i18n attribute to the document
AddElement(key) ==
    /\ Len(page) < MaxElems
    /\ page' = Append(page, [key |-> key, html |-> Original])
    /\ UNCHANGED <<navigator, htmlLang, phase, lang, elements, requests, settled, log,
                   uncaught>>
    /\ UNCHANGED <<loads, markerWrites, toggled, translation, chipVars, bannerVars>>

\* the calls of load made on this page
SnapshotArgs == {NoArg, Arg(es)}

InitSnapshot ==
    /\ navigator = [hasLanguages |-> TRUE, languages |-> <<enUS, deDE>>,
                    language |-> enUS]
    /\ page \in {pg \in Pages(LoadKeys, MaxElems) : Len(pg) >= 1 /\ Len(pg) < MaxElems}
    /\ htmlLang = en
    /\ phase = "start"
    /\ lang = <<>>
    /\ elements = <<>>
    /\ requests = <<>>
    /\ settled = <<>>
    /\ log = <<>>
    /\ uncaught = FALSE
    /\ NoCalls
    /\ NoChips
    /\ NoBanner

NextSnapshot ==
    \/ Constructor
    \/ \E key \in LoadKeys : AddElement(key)
    \/ \E arg \in SnapshotArgs : Load(arg)
    \/ \E r \in 1..Len(requests) : FetchResolve(r)
    \/ \E r \in 1..Len(requests) : FetchReject(r)
    \/ \E r \in 1..Len(requests) : JsonResolve(r)
    \/ \E r \in 1..Len(requests) : JsonReject(r)
    \/ \E r \in 1..Len(requests) : Catch(r)
    \/ Translate(DocDe)

SpecSnapshot == InitSnapshot /\ [][NextSnapshot]_vars

\* position k of the page is one of the captured elements
Captured(k) == \E j \in 1..Len(elements) : elements[j] = k

\* C14: the elements translate may write are fixed at construction: the
\* captured list never changes once the Translator is constructed, and an
\* element that is not in it (it was tagged after construction) still shows
\* its original content, whatever loads and translate calls have run.
C14_SnapshotIsFixed ==
    [][ /\ phase = "ready" => elements' = elements
        /\ \A k \in 1..Len(page') :
               (~Captured(k))' => page'[k].html = Original ]_vars

\* a document has been retrieved and applied after an element was added:
\* a captured element shows its translation, the added one has a key the
\* document resolves and still shows its original content
C14_Witness ==
    /\ phase = "ready"
    /\ Len(page) > Len(elements)
    /\ \E r \in 1..Len(requests) :
           /\ requests[r].st = "fulfilled"
           /\ HasText(DocOf(r), page[Len(page)].key)
    /\ page[Len(page)].html = Original
    /\ \E k \in 1..Len(elements) : page[elements[k]].html # Original

\* C15: translate never mutates the document it is given: after every call
\* of translate, on every document and every page, the object the caller
\* handed over is equal to what it was before the call.
C15_TranslateKeepsDocument ==
    [][ \A doc \in Docs : Translate(doc) => translation' = doc ]_vars

\* translate has been called with a document and has written an element
\* from it
C15_Witness ==
    /\ translation \in Docs
    /\ \E k \in 1..Len(elements) :
           /\ HasText(translation, page[elements[k]].key)
           /\ page[elements[k]].html = TextAt(translation, page[elements[k]].key)

\* C16: every load call issues exactly one retrieval.  The number of
\* retrievals issued equals the number of load calls at every moment: a
\* failed retrieval is not retried, and a load for a language whose document
\* has already arrived fetches it again.
C16_OneRetrievalPerLoad ==
    /\ Len(requests) = loads
    /\ Len(settled) <= Len(requests)
    /\ \A i, j \in 1..Len(settled) : settled[i] = settled[j] => i = j

\* the document of the active language has arrived and is displayed, a
\* second load for the same language has issued its own fetch, and a load
\* that failed has not been retried
C16_Witness ==
    /\ loads = 2
    /\ Len(requests) = 2
    /\ requests[1].st = "fulfilled"
    /\ requests[2].url = requests[1].url
    /\ requests[2].st = "caught"
    /\ page[1].html = TextAt(DocOf(1), page[1].key)

(***************************************************************************)
(* Loads whose fetches settle.                                             *)
(***************************************************************************)
\* a promise of some chain settles: the fetch or the reading of its body
Settle ==
    \E r \in 1..Len(requests) :
        \/ FetchResolve(r) \/ FetchReject(r) \/ JsonResolve(r) \/ JsonReject(r)
        \/ Catch(r)

\* the browser settles every promise of a fetch in the end
SpecLive == InitLoad /\ [][NextLoad]_vars /\ WF_vars(Settle)

\* no fetch is outstanding
Idle == phase = "ready" /\ Len(settled) = Len(requests)

\* some fetch is outstanding
Loading == phase = "ready" /\ Len(settled) < Len(requests)

\* C17: every load call leaves the Translator loading; when the promises
\* of the fetches settle, by success or by failure, the Translator is idle
\* again with the chain of every request ended; and while it is idle and
\* load is not called, it stays idle and no element content, active
\* language or language marker changes.
C17_LoadingReturnsToIdle ==
    /\ [][IsLoadCall => Loading']_vars
    /\ Loading ~> Idle
    /\ [][ (Idle /\ ~IsLoadCall)
           => /\ Idle'
              /\ page' = page
              /\ lang' = lang
              /\ htmlLang' = htmlLang ]_vars

\* two loads have been made, one has succeeded and one has failed, and the
\* Translator is idle again
C17_Witness ==
    /\ Idle
    /\ loads = 2
    /\ \E a, b \in 1..Len(requests) :
           /\ requests[a].st = "fulfilled"
           /\ requests[b].st = "caught"

\* C18: the Translator only reads data-i18n and writes content.  Once it is
\* constructed, whatever load and translate calls run, the captured list
\* (the elements and their order) stays as it is, no element leaves the
\* page, every element keeps its key, and an element joins the page only
\* when the host adds one.
C18_OnlyContentIsWritten ==
    [][ phase = "ready"
        => /\ elements' = elements
           /\ Len(page') >= Len(page)
           /\ \A k \in 1..Len(page) : page'[k].key = page[k].key
           /\ (Len(page') > Len(page)) => \E key \in LoadKeys : AddElement(key) ]_vars

\* a load has applied its document and translate has been called directly:
\* a captured element shows a translation and its key is still a key of the
\* page's vocabulary
C18_Witness ==
    /\ phase = "ready"
    /\ \E r \in 1..Len(requests) : requests[r].st = "fulfilled"
    /\ translation \in Docs
    /\ \E k \in 1..Len(elements) :
           /\ page[elements[k]].html # Original
           /\ page[elements[k]].key \in LoadKeys

(***************************************************************************)
(* The email chips: the React component App and the Web Component          *)
(* BadgeInput.                                                             *)
(***************************************************************************)
\* the most emails the list is let grow to
MaxEmails == 3

\* [\w\d\.-] : letters, digits, the underscore, the dot and the hyphen
ClassChars ==
    {"a", "b", "c", "d", "e", "f", "g", "h", "i", "j", "k", "l", "m",
     "n", "o", "p", "q", "r", "s", "t", "u", "v", "w", "x", "y", "z"} \cup
    {"A", "B", "C", "D", "E", "F", "G", "H", "I", "J", "K", "L", "M",
     "N", "O", "P", "Q", "R", "S", "T", "U", "V", "W", "X", "Y", "Z"} \cup
    {Digits[d] : d \in 1..Len(Digits)} \cup {"_", ".", "-"}

InClass(c) == c \in ClassChars

\* position i of s holds the character c
CharAt(s, i, c) == i >= 1 /\ i <= Len(s) /\ s[i] = c

\* where a [\w\d\.-]+ that starts at position i can end
RunEnds(s, i) == {j \in i..Len(s) : \A k \in i..j : InClass(s[k])}

\* where the second [\w\d\.-]+ can end so that \.[\w\d\.-]+ follows
DomainEnds(s, i) ==
    {j \in RunEnds(s, i) : CharAt(s, j + 1, ".") /\ RunEnds(s, j + 2) # {}}

\* where the first [\w\d\.-]+ can end so that @[\w\d\.-]+\.[\w\d\.-]+ follows
LocalEnds(s, i) ==
    {j \in RunEnds(s, i) : CharAt(s, j + 1, "@") /\ DomainEnds(s, j + 2) # {}}

\* /[\w\d\.-]+@[\w\d\.-]+\.[\w\d\.-]+/ matches at position i
MatchesAt(s, i) == LocalEnds(s, i) # {}

Max(S) == CHOOSE x \in S : \A y \in S : y <= x

\* the last position of the match at i: each + is greedy, it takes the
\* longest run that lets the rest of the pattern match
MatchEnd(s, i) ==
    LET local == Max(LocalEnds(s, i))
        domain == Max(DomainEnds(s, local + 2))
    IN  Max(RunEnds(s, domain + 2))

\* isEmail(email): RegExp.prototype.test, the pattern matches somewhere
isEmail(email) == \E i \in 1..Len(email) : MatchesAt(email, i)

\* String.prototype.match with the g flag: every match, left to right, each
\* search starting after the previous match
RECURSIVE MatchFrom(_, _)
MatchFrom(s, i) ==
    IF i > Len(s) THEN <<>>
    ELSE IF MatchesAt(s, i)
         THEN <<SubSeq(s, i, MatchEnd(s, i))>> \o MatchFrom(s, MatchEnd(s, i) + 1)
    ELSE MatchFrom(s, i + 1)

\* paste.match(/.../g); the empty list stands for null
match(paste) == MatchFrom(paste, 1)

WhiteSpace == {" ", "\t", "\n"}

\* String.prototype.trim
RECURSIVE trim(_)
trim(s) ==
    IF s = <<>> THEN s
    ELSE IF s[1] \in WhiteSpace THEN trim(Tail(s))
    ELSE IF s[Len(s)] \in WhiteSpace THEN trim(SubSeq(s, 1, Len(s) - 1))
    ELSE s

\* Array.prototype.includes
includes(list, x) == \E i \in 1..Len(list) : list[i] = x

\* A variant of the filter that drops only the first occurrence.
RECURSIVE withoutFirst(_, _)
withoutFirst(list, x) ==
    IF list = <<>> THEN <<>>
    ELSE IF list[1] = x THEN Tail(list)
    ELSE <<list[1]>> \o withoutFirst(Tail(list), x)

\* Array.prototype.filter(item => item !== x)
RECURSIVE without(_, _)
without(list, x) ==
    IF list = <<>> THEN <<>>
    ELSE IF list[1] = x THEN without(Tail(list), x)
    ELSE <<list[1]>> \o without(Tail(list), x)

\* const TRIGGER_KEYS = ["Enter", "Tab", ","]
TRIGGER_KEYS == <<"Enter", "Tab", ",">>

\* `${email} has already been added.`
AlreadyAdded(email) ==
    email \o <<" ", "h", "a", "s", " ", "a", "l", "r", "e", "a", "d", "y",
            " ", "b", "e", "e", "n", " ", "a", "d", "d", "e", "d", ".">>

\* `${email} is not a valid email address.`
NotValid(email) ==
    email \o <<" ", "i", "s", " ", "n", "o", "t", " ", "a", " ", "v", "a",
            "l", "i", "d", " ", "e", "m", "a", "i", "l", " ", "a", "d",
            "d", "r", "e", "s", "s", ".">>

\* BadgeInput.isInList(email)
isInList(items, email) == includes(items, email)

\* A variant of validate that only looks for the email in the list.
validateListOnly(items, email) ==
    IF isInList(items, email)
    THEN [ok |-> FALSE, error |-> Str(AlreadyAdded(email))]
    ELSE [ok |-> TRUE, error |-> Null]

\* BadgeInput.validate(email): whether the email may be added, and the
\* message shown when it may not
validate(items, email) ==
    LET first == IF isInList(items, email) THEN Str(AlreadyAdded(email)) ELSE Null
        last == IF ~isEmail(email) THEN Str(NotValid(email)) ELSE first
    IN  IF last # Null THEN [ok |-> FALSE, error |-> last]
        ELSE [ok |-> TRUE, error |-> Null]

\* App.isInList(email): this.state.items.includes(email).  The state has
\* the properties value, emails and error; reading includes of the missing
\* items throws.
AppIsInList(state, email) ==
    IF "items" \in DOMAIN state
    THEN (IF includes(state.items, email) THEN "true" ELSE "false")
    ELSE "TypeError"

\* App.isValid(email): isEmail, then isInList, whose exception ends it
AppIsValid(state, email) ==
    LET first == IF ~isEmail(email) THEN Str(NotValid(email)) ELSE Null
        inList == AppIsInList(state, email)
    IN  IF inList = "TypeError" THEN [threw |-> TRUE, ok |-> FALSE, error |-> Null]
        ELSE LET last == IF inList = "true" THEN Str(AlreadyAdded(email)) ELSE first
             IN  [threw |-> FALSE, ok |-> last = Null, error |-> last]

\* this.state of App
AppState == [value |-> value, emails |-> emails, error |-> error]

\* what is typed and pasted
Alice == <<"a", "@", "b", ".", "c">>
Bob == <<"x", "@", "y", ".", "z">>
Padded == <<" ", "a", "@", "b", ".", "c">>
NoDot == <<"a", "@", "b">>
Blank == <<" ">>
Loose == <<"a", " ", "b", "@", "c", ".", "d">>
Quoted == <<"\"", "a", "@", "b", ".", "c">>
PasteTwo == Alice \o <<" ">> \o Bob
PasteBracket == <<"<">> \o Alice \o <<">">>
PasteTwice == Alice \o <<",">> \o Alice
PasteNone == <<"a", "b">>

Typed == {Alice, Bob, Padded, NoDot, Blank, Loose, Quoted}
Pasted == {PasteTwo, PasteBracket, PasteTwice, PasteNone}
Pressed == {"Enter", "Tab", ",", "a"}

\* the Translator is not on the page of the email chips
NoTranslator ==
    /\ navigator = [hasLanguages |-> FALSE, languages |-> <<>>, language |-> en]
    /\ page = <<>>
    /\ htmlLang = en
    /\ phase = "start"
    /\ lang = <<>>
    /\ elements = <<>>
    /\ requests = <<>>
    /\ settled = <<>>
    /\ log = <<>>
    /\ NoCalls

\* App is rendered from the start; BadgeInput is constructed and not yet
\* connected
InitChips ==
    /\ component \in {"App", "BadgeInput"}
    /\ value = <<>>
    /\ emails = <<>>
    /\ error = Null
    /\ connected = (component = "App")
    /\ listeners = <<>>
    /\ clicked = Null
    /\ uncaught = FALSE
    /\ NoTranslator
    /\ NoBanner

\* one entry of an element's list of event listeners
Listener(target, type, callback) ==
    [target |-> target, type |-> type, callback |-> callback]

\* A variant of addEventListener that adds the listener again when it is
\* already there.
addEventListenerAgain(list, target, type, callback) ==
    Append(list, Listener(target, type, callback))

\* target.addEventListener(type, callback): a listener that is already in
\* the list (same type and callback) is not added again
addEventListener(list, target, type, callback) ==
    IF includes(list, Listener(target, type, callback)) THEN list
    ELSE Append(list, Listener(target, type, callback))

\* target.removeEventListener(type, callback)
removeEventListener(list, target, type, callback) ==
    without(list, Listener(target, type, callback))

\* an event of this type at the target calls the handler
Listening(target, type, callback) ==
    includes(listeners, Listener(target, type, callback))

\* connectedCallback(): the listeners are added.  The handlers are class
\* fields, so every call passes the same three functions.
ConnectedCallback ==
    /\ component = "BadgeInput"
    /\ connected' = TRUE
    /\ listeners' =
           addEventListener(
               addEventListener(
                   addEventListener(listeners, "_input", "keydown", "handleKeyDown"),
                   "_input", "paste", "handlePaste"),
               "_list", "click", "handleDelete")
    /\ UNCHANGED <<component, value, emails, error, clicked, uncaught>>
    /\ UNCHANGED <<translatorVars, bannerVars>>

\* disconnectedCallback(): the listeners are removed
DisconnectedCallback ==
    /\ component = "BadgeInput"
    /\ connected' = FALSE
    /\ listeners' =
           removeEventListener(
               removeEventListener(
                   removeEventListener(listeners, "_input", "keydown", "handleKeyDown"),
                   "_input", "paste", "handlePaste"),
               "_list", "click", "handleDelete")
    /\ UNCHANGED <<component, value, emails, error, clicked, uncaught>>
    /\ UNCHANGED <<translatorVars, bannerVars>>

\* App.handleChange(evt): the user has edited the input
AppHandleChange(text) ==
    /\ component = "App"
    /\ value' = text
    /\ error' = Null
    /\ UNCHANGED <<component, emails, connected, listeners, clicked, uncaught>>
    /\ UNCHANGED <<translatorVars, bannerVars>>

\* the user edits the <input type="email"> of BadgeInput; the value of such
\* an input has no white space at its ends
Input(text) ==
    /\ component = "BadgeInput"
    /\ value' = trim(text)
    /\ UNCHANGED <<component, emails, error, connected, listeners, clicked, uncaught>>
    /\ UNCHANGED <<translatorVars, bannerVars>>

\* App.handleKeyDown(evt)
AppHandleKeyDown(key) ==
    /\ component = "App"
    /\ includes(TRIGGER_KEYS, key)
    /\ LET email == trim(value)
           valid == AppIsValid(AppState, email)
       IN  /\ email # <<>>
           /\ IF valid.threw
              THEN /\ uncaught' = TRUE
                   /\ UNCHANGED <<value, emails, error>>
              ELSE IF valid.ok /\ Len(emails) < MaxEmails
              THEN /\ emails' = Append(emails, email)
                   /\ value' = <<>>
                   /\ UNCHANGED <<error, uncaught>>
              ELSE /\ error' = valid.error
                   /\ UNCHANGED <<value, emails, uncaught>>
    /\ UNCHANGED <<component, connected, listeners, clicked>>
    /\ UNCHANGED <<translatorVars, bannerVars>>

\* BadgeInput.handleKeyDown(evt): every key hides the error; a trigger key
\* validates the input and adds it
HandleKeyDown(key) ==
    /\ component = "BadgeInput"
    /\ Listening("_input", "keydown", "handleKeyDown")
    /\ IF includes(TRIGGER_KEYS, key)
       THEN LET email == trim(value)
                valid == validate(emails, email)
            IN  IF email # <<>> /\ valid.ok
                THEN /\ Len(emails) < MaxEmails
                     /\ value' = <<>>
                     /\ emails' = Append(emails, email)
                     /\ error' = Null
                ELSE /\ error' = (IF email # <<>> THEN valid.error ELSE Null)
                     /\ UNCHANGED <<value, emails>>
       ELSE /\ error' = Null
            /\ UNCHANGED <<value, emails>>
    /\ UNCHANGED <<component, connected, listeners, clicked, uncaught>>
    /\ UNCHANGED <<translatorVars, bannerVars>>

\* filter(email => !this.isInList(email)) over the matches of a paste
RECURSIVE notInList(_, _)
notInList(found, items) ==
    IF found = <<>> THEN <<>>
    ELSE IF isInList(items, found[1]) THEN notInList(Tail(found), items)
    ELSE <<found[1]>> \o notInList(Tail(found), items)

\* App.handlePaste(evt): the filter calls isInList for the first match
AppHandlePaste(paste) ==
    /\ component = "App"
    /\ LET found == match(paste)
       IN  /\ found # <<>>
           /\ IF AppIsInList(AppState, found[1]) = "TypeError"
              THEN /\ uncaught' = TRUE
                   /\ UNCHANGED emails
              ELSE /\ Len(emails) + Len(found) <= MaxEmails
                   /\ emails' = emails \o found
                   /\ UNCHANGED uncaught
    /\ UNCHANGED <<component, value, error, connected, listeners, clicked>>
    /\ UNCHANGED <<translatorVars, bannerVars>>

\* BadgeInput.handlePaste(evt)
HandlePaste(paste) ==
    /\ component = "BadgeInput"
    /\ Listening("_input", "paste", "handlePaste")
    /\ LET found == match(paste)
           toBeAdded == notInList(found, emails)
       IN  /\ found # <<>>
           /\ Len(emails) + Len(toBeAdded) <= MaxEmails
           /\ emails' = emails \o toBeAdded
    /\ UNCHANGED <<component, value, error, connected, listeners, clicked, uncaught>>
    /\ UNCHANGED <<translatorVars, bannerVars>>

\* dataset.value of the button update() renders for an item: the markup is
\* data-value="${item}", so the attribute's value ends at the first double
\* quote of the item.  (No typed text of the model holds a character
\* reference.)
RECURSIVE dataValue(_)
dataValue(item) ==
    IF item = <<>> \/ item[1] = "\"" THEN <<>>
    ELSE <<item[1]>> \o dataValue(Tail(item))

\* the address handleDelete is called to remove when the button of chip i
\* is clicked: App passes the email of the chip, BadgeInput reads the
\* button's data-value
toBeRemoved(i) ==
    IF component = "App" THEN emails[i] ELSE dataValue(emails[i])

\* handleDelete: the button of chip i is clicked (App: handleDelete(email);
\* BadgeInput: a click whose target is the button)
HandleDelete(i) ==
    /\ component = "App" \/ Listening("_list", "click", "handleDelete")
    /\ i \in 1..Len(emails)
    /\ clicked' = Str(toBeRemoved(i))
    /\ emails' = without(emails, toBeRemoved(i))
    /\ UNCHANGED <<component, value, error, connected, listeners, uncaught>>
    /\ UNCHANGED <<translatorVars, bannerVars>>

NextChips ==
    \/ ConnectedCallback
    \/ DisconnectedCallback
    \/ \E text \in Typed : AppHandleChange(text)
    \/ \E text \in Typed : Input(text)
    \/ \E key \in Pressed : AppHandleKeyDown(key)
    \/ \E key \in Pressed : HandleKeyDown(key)
    \/ \E paste \in Pasted : AppHandlePaste(paste)
    \/ \E paste \in Pasted : HandlePaste(paste)
    \/ \E i \in 1..Len(emails) : HandleDelete(i)

SpecChips == InitChips /\ [][NextChips]_vars

\* C19: in both email-chip components every entry of the email list matches
\* the email pattern, after any sequence of typing, trigger keys, pastes
\* and deletes: no add and no paste puts a string that fails isEmail into
\* the list.
C19_EveryEntryIsEmail ==
    \A i \in 1..Len(emails) : isEmail(emails[i])

\* a typed address and two pasted ones are in the list of BadgeInput, after
\* input that is no email was typed and rejected
C19_Witness ==
    /\ component = "BadgeInput"
    /\ Len(emails) = MaxEmails
    /\ includes(emails, Loose)
    /\ includes(emails, Bob)
    /\ error = Str(NotValid(NoDot))

(***************************************************************************)
(* The outdated-browser banner: BrowserDetector, TopBanner and App.        *)
(***************************************************************************)
\* this.unsupportedBrowsers
unsupportedBrowsers ==
    [Chrome |-> 70, Firefox |-> 60, IE |-> 10, Edge |-> 15, Opera |-> 50,
     Safari |-> 12]

\* the value of a comparison operand that is not a number
NaN == [t |-> "NaN", s |-> <<>>, p |-> <<>>, n |-> 0]

\* +version for the version strings of the model: white space is dropped,
\* the empty string is 0, decimal digits are their number, text that is no
\* numeric literal is NaN
UnaryPlus(version) ==
    LET text == trim(version)
    IN  IF text = <<>> THEN Num(0)
        ELSE IF \A i \in 1..Len(text) : IsDigit(text[i]) THEN Num(ParseIndex(text))
        ELSE NaN

\* isSupported with "higher or equal" in the place of "higher"
isSupportedFrom(detected) ==
    IF detected.name \in DOMAIN unsupportedBrowsers
    THEN (IF /\ UnaryPlus(detected.version).t = "number"
             /\ UnaryPlus(detected.version).n >= unsupportedBrowsers[detected.name]
          THEN TRUE
          ELSE FALSE)
    ELSE FALSE

\* BrowserDetector.isSupported()
isSupported(detected) ==
    IF detected.name \in DOMAIN unsupportedBrowsers
    THEN (IF /\ UnaryPlus(detected.version).t = "number"
             /\ UnaryPlus(detected.version).n > unsupportedBrowsers[detected.name]
          THEN TRUE
          ELSE FALSE)
    ELSE FALSE

\* TopBanner(props): null when props.open is false, else the alert
TopBanner(open) == IF ~open THEN "null" ELSE "alert"

\* navigator.appVersion of a browser whose user agent names no known browser
appVersion ==
    <<"5", ".", "0", " ", "(", "W", "i", "n", "d", "o", "w", "s", ")">>

\* the names and versions _detectBrowser can find
BrowserNames ==
    {"Chrome", "Firefox", "IE", "Edge", "Opera", "Safari", "MSIE", "Netscape"}

VersionNumbers == {9, 10, 11, 12, 13, 15, 16, 50, 51, 60, 61, 70, 71}

BrowserVersions ==
    {NumberToString(v) : v \in VersionNumbers} \cup {<<>>, appVersion}

\* the banner example before it is mounted, in any browser
InitBanner ==
    /\ browser \in [name : BrowserNames, version : BrowserVersions]
    /\ outdatedBrowser = FALSE
    /\ mounted = FALSE
    /\ uncaught = FALSE
    /\ NoTranslator
    /\ NoChips

\* App.componentDidMount()
ComponentDidMount ==
    /\ ~mounted
    /\ mounted' = TRUE
    /\ outdatedBrowser' = (IF isSupported(browser) THEN TRUE ELSE outdatedBrowser)
    /\ UNCHANGED <<browser, uncaught>>
    /\ UNCHANGED <<translatorVars, chipVars>>

NextBanner == ComponentDidMount

SpecBanner == InitBanner /\ [][NextBanner]_vars

\* what App.render() puts in the place of <TopBanner open={...} />
Rendered == TopBanner(outdatedBrowser)

\* C20: the banner is displayed only when the browser is outdated: once App
\* is mounted, the TopBanner is the alert exactly when
\* BrowserDetector.isSupported() is false.
C20_BannerOnlyWhenOutdated ==
    mounted => ((Rendered = "alert") <=> ~isSupported(browser))

\* C21: isSupported is true exactly when the detected name is in the table
\* of unsupported versions and the version is a number strictly higher than
\* the table's; a lower or equal version, an empty version and a name absent
\* from the table give false.  (App stores the result on mounting.)
C21_SupportedIffHigher ==
    mounted =>
        (outdatedBrowser
             <=> \E n \in DOMAIN unsupportedBrowsers, v \in VersionNumbers :
                     /\ browser.name = n
                     /\ browser.version = NumberToString(v)
                     /\ v > unsupportedBrowsers[n])

C21_Witness ==
    /\ mounted
    /\ ~outdatedBrowser
    /\ browser.name = "Safari"
    /\ browser.version = <<"1", "2">>

(***************************************************************************)
(* Key paths that do not end at a string leaf.                             *)
(***************************************************************************)
\* the key path goes on after a string leaf of the document
PastLeaf(doc, key) ==
    LET path == split(key)
    IN  \E j \in 1..(Len(path) - 1) :
            /\ SubSeq(path, 1, j) \in DOMAIN doc
            /\ doc[SubSeq(path, 1, j)].t = "string"

\* the full key path names a value of the document that is no string
NotAString(doc, key) ==
    /\ split(key) \in DOMAIN doc
    /\ doc[split(key)].t # "string"

\* C22 as claimed: an element whose key path continues past a string leaf
\* (greeting.x for any x, numeric indices and length included) has the same
\* content after translate as before.
C22_PastLeafKeepsContent ==
    [][ \A doc \in Docs :
            Translate(doc)
            => \A k \in 1..Len(elements) :
                   PastLeaf(doc, page[elements[k]].key)
                   => page'[elements[k]].html = page[elements[k]].html ]_vars

\* C23 as claimed: an element whose full key path names a nested mapping or
\* another value that is no string has the same content after translate as
\* before.
C23_OnlyStringsAreWritten ==
    [][ \A doc \in Docs :
            Translate(doc)
            => \A k \in 1..Len(elements) :
                   NotAString(doc, page[elements[k]].key)
                   => page'[elements[k]].html = page[elements[k]].html ]_vars

(***************************************************************************)
(* Loads of files with an empty string or a list in the place of a text.   *)
(***************************************************************************)
\* keys that es.json and it.json resolve to a string, to an empty string or
\* to a list
BlankKeys == {greeting, header, footer}

\* es.json, it.json and a file the server does not hold
BlankArgs == {Arg(es), Arg(it), Arg(fr)}

InitBlank ==
    /\ navigator = [hasLanguages |-> TRUE, languages |-> <<enUS, deDE>>,
                    language |-> enUS]
    /\ page \in {pg \in Pages(BlankKeys, MaxElems) : Len(pg) >= 1}
    /\ htmlLang = en
    /\ phase = "start"
    /\ lang = <<>>
    /\ elements = <<>>
    /\ requests = <<>>
    /\ settled = <<>>
    /\ log = <<>>
    /\ uncaught = FALSE
    /\ NoCalls
    /\ NoChips
    /\ NoBanner

NextBlank ==
    \/ Constructor
    \/ \E arg \in BlankArgs : Load(arg)
    \/ \E r \in 1..Len(requests) : FetchResolve(r)
    \/ \E r \in 1..Len(requests) : FetchReject(r)
    \/ \E r \in 1..Len(requests) : JsonResolve(r)
    \/ \E r \in 1..Len(requests) : JsonReject(r)
    \/ \E r \in 1..Len(requests) : Catch(r)

SpecBlank == InitBlank /\ [][NextBlank]_vars

\* C24 as claimed: translate never blanks an element.  Every element starts
\* with non-empty content, and after any sequence of loads, successful,
\* failed or overlapping, every element still has non-empty content.
C24_NeverBlank ==
    \A k \in 1..Len(page) : page[k].html # <<>>

(***************************************************************************)
(* A host that calls load only when no fetch is outstanding, with files    *)
(* of the same key structure.                                              *)
(***************************************************************************)
\* keys that en.json and de.json resolve to a text, a key whose last
\* segment they lack, and a key that leaves the document below a text
SerialKeys ==
    {greeting, Dot(header, title), Dot(header, name), Dot(Dot(greeting, name), title)}

\* the codes of en.json and de.json, and of a file the server does not hold
SerialArgs == {NoArg, Arg(en), Arg(de), Arg(fr)}

InitSerial ==
    /\ navigator \in Navigators
    /\ page \in {pg \in Pages(SerialKeys, MaxElems) : Len(pg) >= 1}
    /\ htmlLang = en
    /\ phase = "start"
    /\ lang = <<>>
    /\ elements = <<>>
    /\ requests = <<>>
    /\ settled = <<>>
    /\ log = <<>>
    /\ uncaught = FALSE
    /\ NoCalls
    /\ NoChips
    /\ NoBanner

\* load(arg), called when the chain of every earlier load has ended
LoadWhenIdle(arg) == Idle /\ Load(arg)

NextSerial ==
    \/ Constructor
    \/ \E arg \in SerialArgs : LoadWhenIdle(arg)
    \/ \E r \in 1..Len(requests) : FetchResolve(r)
    \/ \E r \in 1..Len(requests) : FetchReject(r)
    \/ \E r \in 1..Len(requests) : JsonResolve(r)
    \/ \E r \in 1..Len(requests) : JsonReject(r)
    \/ \E r \in 1..Len(requests) : Catch(r)

SpecSerial == InitSerial /\ [][NextSerial]_vars

\* the language the most recent load call asked for: the code it passed, or
\* without one the code of the last call that passed one, or the detected
\* language
Asked ==
    IF LastCode(Len(requests)) # <<>> THEN LastCode(Len(requests))
    ELSE getLanguage(navigator).s

\* C25: when loads do not overlap and the files have the same key structure
\* with non-empty leaves, then once a successful load(L) has settled the
\* active language is L, L's file is the one that was retrieved, and every
\* captured element whose key names a text of L's file shows that text.
C25_DisplayedAgreesWithActive ==
    ( /\ Idle
      /\ requests # <<>>
      /\ requests[Len(requests)].st = "fulfilled" )
    => /\ lang = Asked
       /\ requests[Len(requests)].url = Url(lang)
       /\ Url(lang) \in DOMAIN Files
       /\ \A k \in 1..Len(elements) :
              HasText(Files[Url(lang)], page[elements[k]].key)
              => page[elements[k]].html =
                     TextAt(Files[Url(lang)], page[elements[k]].key)

\* load("de") has succeeded after another load had settled, and two
\* captured elements show the German texts
C25_Witness ==
    /\ Idle
    /\ Len(requests) = 2
    /\ requests[2].st = "fulfilled"
    /\ requests[1].url # requests[2].url
    /\ lang = de
    /\ Len(elements) = 2
    /\ page[elements[1]].html = Hallo
    /\ page[elements[2]].html = Kopf

(***************************************************************************)
(* The failure report.                                                     *)
(***************************************************************************)
\* the language code inside `/i18n/${lang}.json`
LanguageOf(url) == SubSeq(url, 7, Len(url) - 5)

\* C26 as claimed: the failure report of a load names the language whose
\* retrieval failed.  Whenever the fetch of a request fails, the message
\* logged is the one for the code in the URL of that request, also when
\* load was called with another code in between.
C26_ReportNamesFailedLanguage ==
    [][ \A r \in 1..Len(requests) :
            ( /\ requests[r].st = "rejected"
              /\ requests'[r].st = "caught"
              /\ ~requests[r].got )
            => log' = Append(log, CouldNotLoad(LanguageOf(requests[r].url))) ]_vars

(***************************************************************************)
(* Detection with an empty list of preferred languages.                    *)
(***************************************************************************)
\* C27 as claimed: construction succeeds whenever the environment supplies
\* a preferred language; when navigator.languages is there but empty and
\* navigator.language is available, the detected language is the first two
\* characters of navigator.language.
C27_EmptyListFallsBack ==
    phase # "start"
    => /\ phase = "ready"
       /\ (navigator.hasLanguages /\ navigator.languages = <<>>)
          => lang = substr(navigator.language, 0, 2)

(***************************************************************************)
(* The item list of the badge input.                                       *)
(***************************************************************************)
\* C28 as claimed: in the badge-input component the item list never holds
\* the same address twice, whatever trigger-key adds, pastes and deletes
\* have happened.
C28_NoDuplicates ==
    component = "BadgeInput"
    => \A i, j \in 1..Len(emails) : emails[i] = emails[j] => i = j

\* C29: in the badge-input component the keydown, paste and click handlers
\* are registered exactly while the component is connected.  After any
\* sequence of connectedCallback and disconnectedCallback calls no listener
\* is registered twice, after a connectedCallback all three are registered,
\* after a disconnectedCallback none is, and no step taken while the
\* component is disconnected changes the item list.
C29_HandlersWhileConnected ==
    [][ component = "BadgeInput"
        => /\ \A i, j \in 1..Len(listeners') :
                  listeners'[i] = listeners'[j] => i = j
           /\ connected'
              => /\ Len(listeners') = 3
                 /\ Listening("_input", "keydown", "handleKeyDown")'
                 /\ Listening("_input", "paste", "handlePaste")'
                 /\ Listening("_list", "click", "handleDelete")'
           /\ ~connected' => listeners' = <<>>
           /\ ~connected => emails' = emails ]_vars

\* the badge input has been disconnected with an address in its list and a
\* text in its input
C29_Witness ==
    /\ component = "BadgeInput"
    /\ ~connected
    /\ listeners = <<>>
    /\ emails = <<Alice>>
    /\ value = Bob

(***************************************************************************)
(* Deleting a chip.                                                        *)
(***************************************************************************)
\* the positions of the entries that are not the address d
Kept(list, d) == {j \in 1..Len(list) : list[j] # d}

\* the k-th smallest member of a set of positions
Nth(S, k) == CHOOSE j \in S : Cardinality({x \in S : x < j}) = k - 1

\* C30: a call of handleDelete for an address removes every occurrence of
\* that address from the list and leaves all other entries, and their
\* order, as they were; when the address is not in the list the list stays
\* as it is.
C30_DeleteRemovesOnlyThatAddress ==
    [][ \A i \in 1..Len(emails) :
            HandleDelete(i)
            => LET d == clicked'.s
               IN  /\ clicked'.t = "string"
                   /\ Len(emails') = Cardinality(Kept(emails, d))
                   /\ \A k \in 1..Len(emails') :
                          emails'[k] = emails[Nth(Kept(emails, d), k)]
                   /\ ~includes(emails, d) => emails' = emails ]_vars

\* handleDelete has removed an address from the badge input's list and the
\* other entry is still there
C30_Witness ==
    /\ component = "BadgeInput"
    /\ clicked = Str(Alice)
    /\ emails = <<Bob>>

====
